---- MODULE Spec2Model ----
(***************************************************************************)
(* Model of serve.js: the Cosmic Cash local HTTP server.                   *)
(* (The second source file is the same server before the fallback          *)
(* candidates were added; its start-up, mock rules and root check are the  *)
(* same lines.)                                                            *)
(*                                                                         *)
(* State: the four cached mock bodies, the position of the start-up        *)
(* script (load, listen), the requests accepted so far with the response   *)
(* each one has produced, and whether the process is still alive.          *)
(* Environment: the four mock files on disk at start-up, the result of     *)
(* every fs.stat, the clock, and whether a read stream fails.              *)
(* Strings are TLA+ strings; includes, startsWith, split, path.join,       *)
(* path.normalize and path.extname are computed character by character.    *)
(***************************************************************************)
EXTENDS Integers, Sequences, FiniteSets, Bags, TLC

VARIABLES
    disk,               \* the four mock files as they are on disk at start-up
    gameServiceBody,    \* serve.js:38
    reloadBalanceBody,  \* serve.js:39
    saveSettingsBody,   \* serve.js:40
    statsBody,          \* serve.js:41
    loaded,             \* loadMockResponses() has returned (serve.js:162)
    listening,          \* server.listen() has been called (serve.js:163)
    crashed,            \* an uncaught exception has terminated the process
    reqs                \* the accepted requests, each with its response so far:
                        \* a bag, requests have no identity beyond their content

vars == <<disk, gameServiceBody, reloadBalanceBody, saveSettingsBody, statsBody,
          loaded, listening, crashed, reqs>>

slots == <<gameServiceBody, reloadBalanceBody, saveSettingsBody, statsBody>>

(***************************************************************************)
(* Bounds and environment                                                  *)
(***************************************************************************)
MaxRequests == 2

\* __dirname of serve.js on the machine that runs it.
ROOT == "/srv/app"

vsPrefix ==
    "demogamesfree.pragmaticplay.net/gs2c/common/v1/games-html5/games/vs/vs40cosmiccash/"

\* Request targets (req.url) the clients send.
Targets ==
    { "", "/", "/foo?x=stats.do",
      "/../etc/passwd", "/../appsecret/k.txt",
      "/" \o vsPrefix \o "x.json",
      "/" \o vsPrefix \o "game/x.json",
      "/" \o vsPrefix \o "desktop/x.json",
      "/" \o vsPrefix \o "desktop/game/x.json",
      "/gameService", "/gs2c/reloadBalance.do?x=1", "/saveSettings.do",
      "/stats.do", "/customizations.info",
      "/stats.do/gameService", "/customizations.info/saveSettings.do" }

\* The targets of the start-up specification: every mock rule, and one file.
StartupTargets ==
    { "/gameService", "/gs2c/reloadBalance.do?x=1", "/saveSettings.do",
      "/stats.do", "/customizations.info",
      "/stats.do/gameService", "/customizations.info/saveSettings.do",
      "/index.html" }

\* Values of Date.now(), already converted to text by the "+" of serve.js:80.
Clock == { "1790000000000", "1790000000001" }

\* What fs.stat reports for a path: an error, a non-regular file, a regular file.
\* The callback tells only the last from the other two, and so does the record
\* a response keeps of it.
StatResults == { "err", "dir", "file" }

MockNames == { "gameService", "reloadBalance", "saveSettings", "stats" }

\* A mock file on disk: absent, present but unreadable, empty, or with text.
DiskFile(n) ==
    { [exists |-> FALSE, readable |-> FALSE, text |-> ""],
      [exists |-> TRUE,  readable |-> FALSE, text |-> ""],
      [exists |-> TRUE,  readable |-> TRUE,  text |-> ""],
      [exists |-> TRUE,  readable |-> TRUE,  text |-> "saved:" \o n] }

(***************************************************************************)
(* JavaScript values and string functions                                  *)
(***************************************************************************)
Null == [isNull |-> TRUE, text |-> ""]
Str(s) == [isNull |-> FALSE, text |-> s]

\* a || b for a slot a and a string b: null and "" are both falsy.
OrElse(a, b) == IF a.isNull \/ a.text = "" THEN b ELSE a.text

startsWith(s, p) == Len(p) <= Len(s) /\ SubSeq(s, 1, Len(p)) = p

\* The positions at which n occurs in s.
occurrences(s, n) ==
    { i \in 1..(Len(s) - Len(n) + 1) : SubSeq(s, i, i + Len(n) - 1) = n }

\* Position of the first occurrence of n in s, 0 when there is none.
indexOf(s, n) ==
    LET hits == occurrences(s, n)
    IN  IF hits = {} THEN 0 ELSE CHOOSE i \in hits : \A j \in hits : i <= j

lastIndexOf(s, n) ==
    LET hits == occurrences(s, n)
    IN  IF hits = {} THEN 0 ELSE CHOOSE i \in hits : \A j \in hits : i >= j

includes(s, n) == \E i \in 1..(Len(s) - Len(n) + 1) : SubSeq(s, i, i + Len(n) - 1) = n

\* The pieces of s from position from on, cut at the occurrences hits of sep.
RECURSIVE splitFrom(_, _, _, _)
splitFrom(s, sep, hits, from) ==
    LET rest == { i \in hits : i >= from }
    IN  IF rest = {} THEN <<SubSeq(s, from, Len(s))>>
        ELSE LET i == CHOOSE k \in rest : \A j \in rest : k <= j
             IN  <<SubSeq(s, from, i - 1)>> \o splitFrom(s, sep, hits, i + Len(sep))

split(s, sep) == splitFrom(s, sep, occurrences(s, sep), 1)

\* s.replace(/^\//, "")
stripLeadingSlash(s) == IF startsWith(s, "/") THEN SubSeq(s, 2, Len(s)) ELSE s

(***************************************************************************)
(* path.normalize, path.join, path.extname (POSIX, absolute paths)         *)
(***************************************************************************)
RECURSIVE normalizeSegments(_, _)
normalizeSegments(segs, acc) ==
    IF segs = <<>> THEN acc
    ELSE LET s == Head(segs)
         IN  IF s = "" \/ s = "." THEN normalizeSegments(Tail(segs), acc)
             ELSE IF s = ".."
                  THEN normalizeSegments(Tail(segs),
                           IF acc = <<>> THEN acc ELSE SubSeq(acc, 1, Len(acc) - 1))
                  ELSE normalizeSegments(Tail(segs), Append(acc, s))

RECURSIVE joinSegments(_)
joinSegments(segs) ==
    IF segs = <<>> THEN ""
    ELSE IF Len(segs) = 1 THEN Head(segs)
    ELSE Head(segs) \o "/" \o joinSegments(Tail(segs))

normalize(p) ==
    LET segs     == normalizeSegments(split(p, "/"), <<>>)
        trailing == Len(p) > 0 /\ SubSeq(p, Len(p), Len(p)) = "/"
    IN  IF segs = <<>> THEN "/"
        ELSE "/" \o joinSegments(segs) \o (IF trailing THEN "/" ELSE "")

join(a, b) == IF b = "" THEN normalize(a) ELSE normalize(a \o "/" \o b)

basename(p) == LET segs == split(p, "/") IN segs[Len(segs)]

extname(p) ==
    LET b == basename(p)
        d == lastIndexOf(b, ".")
    IN  IF d <= 1 THEN "" ELSE SubSeq(b, d, Len(b))

\* MIME[ext] || "application/octet-stream"
MIME(ext) ==
    CASE ext = ".html"  -> "text/html"
      [] ext = ".htm"   -> "text/html"
      [] ext = ".do"    -> "text/html"
      [] ext = ".js"    -> "application/javascript"
      [] ext = ".json"  -> "application/json"
      [] ext = ".css"   -> "text/css"
      [] ext = ".png"   -> "image/png"
      [] ext = ".jpg"   -> "image/jpeg"
      [] ext = ".jpeg"  -> "image/jpeg"
      [] ext = ".gif"   -> "image/gif"
      [] ext = ".ico"   -> "image/x-icon"
      [] ext = ".svg"   -> "image/svg+xml"
      [] ext = ".woff"  -> "font/woff"
      [] ext = ".woff2" -> "font/woff2"
      [] ext = ".mp3"   -> "audio/mpeg"
      [] ext = ".ogg"   -> "audio/ogg"
      [] ext = ".ttf"   -> "font/ttf"
      [] OTHER          -> "application/octet-stream"

\* The bytes a read stream of the file at path p delivers.
fileBytes(p) == "bytes of " \o p

(***************************************************************************)
(* Start-up: loadMockResponses(), then server.listen()                     *)
(***************************************************************************)
\* One "if (fs.existsSync(p)) slot = fs.readFileSync(p)" line of the try block:
\* readFileSync throws when the file exists and cannot be read.
readThrows(f) == f.exists /\ ~f.readable
readValue(f, old) == IF f.exists /\ f.readable THEN Str(f.text) ELSE old

\* Every state the four mock files can be in when the process starts.
DiskStates ==
    { d \in [MockNames -> UNION { DiskFile(n) : n \in MockNames }] :
          \A n \in MockNames : d[n] \in DiskFile(n) }

\* The clone without saved responses, and the clone with all four of them.
DiskSamples ==
    { d \in DiskStates :
          \/ \A n \in MockNames : ~d[n].exists
          \/ \A n \in MockNames : d[n].readable /\ d[n].text # "" }

Start ==
    /\ gameServiceBody = Null
    /\ reloadBalanceBody = Null
    /\ saveSettingsBody = Null
    /\ statsBody = Null
    /\ loaded = FALSE
    /\ listening = FALSE
    /\ crashed = FALSE
    /\ reqs = EmptyBag

Init == disk \in DiskSamples /\ Start

StartupInit == disk \in DiskStates /\ Start

\* The four reads share one try block: the first throw skips the lines after it.
LoadMockResponses ==
    LET gs == disk["gameService"]
        rb == disk["reloadBalance"]
        ss == disk["saveSettings"]
        st == disk["stats"]
        rbReached == ~readThrows(gs)
        ssReached == rbReached /\ ~readThrows(rb)
        stReached == ssReached /\ ~readThrows(ss)
    IN  /\ ~loaded
        /\ ~crashed
        /\ gameServiceBody' = readValue(gs, gameServiceBody)
        /\ reloadBalanceBody' =
               IF rbReached THEN readValue(rb, reloadBalanceBody) ELSE reloadBalanceBody
        /\ saveSettingsBody' =
               IF ssReached THEN readValue(ss, saveSettingsBody) ELSE saveSettingsBody
        /\ statsBody' = IF stReached THEN readValue(st, statsBody) ELSE statsBody
        /\ loaded' = TRUE
        /\ UNCHANGED <<disk, listening, crashed, reqs>>

\* Variant: server.listen is called without waiting for the load.
CanListen_BeforeLoad == ~listening

\* The script calls server.listen after loadMockResponses has returned.
CanListen == loaded /\ ~listening

Listen ==
    /\ CanListen
    /\ ~crashed
    /\ listening' = TRUE
    /\ UNCHANGED <<disk, slots, loaded, crashed, reqs>>

(***************************************************************************)
(* The request handler                                                     *)
(***************************************************************************)
\* A response nothing has been written to yet.
\* state: "new", "stat" (an fs.stat is pending), "stream" (the file is being
\* piped), "ended" (res.end was called or the pipe finished).
\* statted: the indexes tryCandidate called fs.stat with; isFile: what each
\* callback that has run found.
\* failure: where an exception was raised while the request was handled
\* ("sync": in the handler's synchronous part, "stream": by the read stream),
\* "" when none was.
NewRes(url) ==
    [ url |-> url, pathname |-> "", state |-> "new",
      statusCode |-> 0, contentType |-> "", allowOrigin |-> "", body |-> "",
      relCandidates |-> <<>>, index |-> 0, statted |-> <<>>, isFile |-> <<>>,
      file |-> "", ends |-> 0, failure |-> "" ]

\* Variant: the target is used whole, query string included.
Pathname_WholeTarget(url) == IF url = "" THEN "/" ELSE url

\* (req.url || "").split("?")[0] || "/"
Pathname(url) ==
    LET head == split(url, "?")[1] IN IF head = "" THEN "/" ELSE head

end(res, body) == [res EXCEPT !.body = body, !.ends = @ + 1, !.state = "ended"]

\* contentType "" stands for an omitted argument.
sendMock(res, body, contentType) ==
    end([res EXCEPT !.statusCode = 200,
                    !.contentType = IF contentType = ""
                                    THEN "application/x-www-form-urlencoded"
                                    ELSE contentType,
                    !.allowOrigin = "*"],
        body)

\* Variant: the stats.do test is moved to the head of the if-chain.
Classify_StatsFirst(pathname) ==
    IF includes(pathname, "stats.do") THEN "stats.do"
    ELSE IF includes(pathname, "gameService") THEN "gameService"
    ELSE IF includes(pathname, "reloadBalance.do") THEN "reloadBalance.do"
    ELSE IF includes(pathname, "saveSettings.do") THEN "saveSettings.do"
    ELSE IF includes(pathname, "customizations.info") THEN "customizations.info"
    ELSE "static"

\* The rule that answers a pathname: the if-chain of the handler, in its order.
Classify(pathname) ==
    IF includes(pathname, "gameService") THEN "gameService"
    ELSE IF includes(pathname, "reloadBalance.do") THEN "reloadBalance.do"
    ELSE IF includes(pathname, "saveSettings.do") THEN "saveSettings.do"
    ELSE IF includes(pathname, "stats.do") THEN "stats.do"
    ELSE IF includes(pathname, "customizations.info") THEN "customizations.info"
    ELSE "static"

gameServiceFallback == "balance=100000.00&balance_cash=100000.00&na=s"
reloadBalanceFallback(now) ==
    "balance_bonus=0.00&balance=100000.00&balance_cash=100000.00&stime=" \o now
statsFallback == "{\"error\":0,\"description\":\"OK\"}"
customizationsBody == "{\"customizations\":[]}"

\* The body a mock rule sends: the cached slot or the literal.
mockBody(slot, literal) == OrElse(slot, literal)

\* Variant: the tail is used as it is.
tailNoLeadingGame_Keep(tail) == tail

\* The third candidate's tail: a leading "game/" is removed.
tailNoLeadingGame(tail) ==
    IF startsWith(tail, "game/") THEN SubSeq(tail, Len("game/") + 1, Len(tail)) ELSE tail

relCandidates(relPath) ==
    IF startsWith(relPath, vsPrefix)
    THEN LET tail == SubSeq(relPath, Len(vsPrefix) + 1, Len(relPath))
         IN  <<relPath>>
             \o (IF ~startsWith(tail, "desktop/")
                 THEN <<vsPrefix \o "desktop/" \o tail>> ELSE <<>>)
             \o (IF ~startsWith(tail, "desktop/game/")
                 THEN <<vsPrefix \o "desktop/game/" \o tailNoLeadingGame(tail)>>
                 ELSE <<>>)
    ELSE <<relPath>>

relPathOf(pathname) ==
    IF pathname = "/" \/ pathname = "" \/ pathname = "/index.html"
    THEN "index.html"
    ELSE stripLeadingSlash(pathname)

\* The check that guards a candidate: a string prefix test on the normalized path.
insideRoot(normalized) == startsWith(normalized, ROOT)

\* tryCandidate(index) up to the point where it returns: it ends the response
\* with 404 or 403, or it calls fs.stat and leaves the callback pending.
tryCandidate(res, index) ==
    IF index >= Len(res.relCandidates)
    THEN end([res EXCEPT !.statusCode = 404], "Not Found: " \o res.pathname)
    ELSE LET candidatePath == join(ROOT, res.relCandidates[index + 1])
             normalized    == normalize(candidatePath)
         IN  IF ~insideRoot(normalized)
             THEN end([res EXCEPT !.statusCode = 403], "Forbidden")
             ELSE [res EXCEPT !.state = "stat", !.index = index,
                              !.file = candidatePath,
                              !.statted = Append(@, index)]

\* The synchronous part of the handler, without the catch block.
handler(res0, now) ==
    LET pathname == Pathname(res0.url)
        res      == [res0 EXCEPT !.pathname = pathname]
        rule     == Classify(pathname)
    IN  CASE rule = "gameService" ->
                sendMock(res, mockBody(gameServiceBody, gameServiceFallback), "")
          [] rule = "reloadBalance.do" ->
                sendMock(res, mockBody(reloadBalanceBody, reloadBalanceFallback(now)), "")
          [] rule = "saveSettings.do" ->
                sendMock(res, mockBody(saveSettingsBody, ""), "text/plain")
          [] rule = "stats.do" ->
                sendMock(res, mockBody(statsBody, statsFallback), "application/json")
          [] rule = "customizations.info" ->
                sendMock(res, customizationsBody, "application/json")
          [] OTHER ->
                tryCandidate([res EXCEPT !.relCandidates =
                                  relCandidates(relPathOf(pathname))], 0)

\* catch (e): res.statusCode = 500; res.end("Internal server error")
catchBlock(res) == end([res EXCEPT !.statusCode = 500], "Internal server error")

\* Variant: the callback skips a candidate.
nextIndex_Skip(index) == index + 2

\* The next index the stat callback tries after a candidate that is no file.
nextIndex(index) == index + 1

\* A request arrives.  now: the value of Date.now().  statThrows: the fs.stat
\* call of tryCandidate(0) rejects its path argument and throws synchronously;
\* the throw is inside the try block and reaches the catch.  (The later candidates are made of the same
\* characters as the first, so a path that passed passes again.)
Request(url) ==
    /\ listening
    /\ ~crashed
    /\ BagCardinality(reqs) < MaxRequests
    /\ \E now \in Clock :
           LET res == handler(NewRes(url), now)
           IN  \E statThrows \in BOOLEAN :
                   /\ statThrows => res.state = "stat"
                   /\ reqs' = reqs (+) SetToBag({
                          IF statThrows
                          THEN catchBlock([res EXCEPT !.failure = "sync"])
                          ELSE res })
    /\ UNCHANGED <<disk, slots, loaded, listening, crashed>>

\* The response old of one request becomes new.
update(bag, old, new) == (bag (-) SetToBag({old})) (+) SetToBag({new})

\* The callback of fs.stat runs with the result the file system gives.  It runs
\* outside the try block.  A candidate that is no regular file passes control
\* to tryCandidate(index + 1); a regular file is opened and piped.
StatCallback(old, result) ==
    /\ listening
    /\ ~crashed
    /\ old.state = "stat"
    /\ LET res == [old EXCEPT !.isFile = Append(@, result = "file")]
       IN  reqs' = update(reqs, old,
               IF result # "file"
               THEN tryCandidate(res, nextIndex(res.index))
               ELSE [res EXCEPT !.statusCode = 200,
                                !.contentType = MIME(extname(res.file)),
                                !.state = "stream"])
    /\ UNCHANGED <<disk, slots, loaded, listening, crashed>>

\* The read stream delivers the file and the pipe ends the response.
StreamEnd(old) ==
    /\ listening
    /\ ~crashed
    /\ old.state = "stream"
    /\ reqs' = update(reqs, old, end(old, fileBytes(old.file)))
    /\ UNCHANGED <<disk, slots, loaded, listening, crashed>>

\* The read stream emits 'error' (the file was removed or became unreadable
\* after the stat).  The stream has no 'error' listener: the event is thrown
\* as an uncaught exception and the process exits.
StreamError(old) ==
    /\ listening
    /\ ~crashed
    /\ old.state = "stream"
    /\ crashed' = TRUE
    /\ reqs' = update(reqs, old, [old EXCEPT !.failure = "stream"])
    /\ UNCHANGED <<disk, slots, loaded, listening>>

NextOn(targets) ==
    \/ LoadMockResponses
    \/ Listen
    \/ \E url \in targets : Request(url)
    \/ \E res \in BagToSet(reqs), result \in StatResults :
           StatCallback(res, result)
    \/ \E res \in BagToSet(reqs) : StreamEnd(res)
    \/ \E res \in BagToSet(reqs) : StreamError(res)

Next == NextOn(Targets)

StartupNext == NextOn(StartupTargets)

\* Every target, on a clone with or without the saved responses.
Spec == Init /\ [][Next]_vars

\* Every state of the four mock files, with the targets of the mock rules.
StartupSpec == StartupInit /\ [][StartupNext]_vars

(***************************************************************************)
(* Properties                                                              *)
(***************************************************************************)
Accepted == BagToSet(reqs)

\* A request the handler passed to the static file resolver.
IsStatic(res) == res.relCandidates # <<>>

urlencoded == "application/x-www-form-urlencoded"

ruleSubstring ==
    <<"gameService", "reloadBalance.do", "saveSettings.do", "stats.do",
      "customizations.info">>

ruleContentType ==
    <<urlencoded, urlencoded, "text/plain", "application/json", "application/json">>

\* The rules whose substring s contains.
matching(s) == { k \in 1..Len(ruleSubstring) : includes(s, ruleSubstring[k]) }

\* The lowest of a non-empty set of rules.
first(m) == CHOOSE k \in m : \A j \in m : k <= j

\* The part of a request target before its first "?".
beforeQuery(url) ==
    LET q == indexOf(url, "?") IN IF q = 0 THEN url ELSE SubSeq(url, 1, q - 1)

IsMockResponse(res, contentType) ==
    /\ res.state = "ended"
    /\ res.statusCode = 200
    /\ res.contentType = contentType
    /\ res.allowOrigin = "*"
    /\ ~IsStatic(res)
    /\ res.statted = <<>>

\* C1: every request is answered by the first rule, in the order gameService,
\* reloadBalance.do, saveSettings.do, stats.do, customizations.info, whose
\* substring its path contains, with status 200, that rule's content type and
\* Access-Control-Allow-Origin: *; only a path that contains none of the five
\* substrings reaches the static file resolver.
C1_FirstRuleWins ==
    \A res \in Accepted :
        LET m == matching(res.pathname)
        IN  IF m # {}
            THEN IsMockResponse(res, ruleContentType[first(m)])
            ELSE IsStatic(res) /\ res.allowOrigin = ""

\* A path with two of the substrings was answered by the earlier rule.
C1_Witness ==
    \E res \in Accepted :
        /\ res.url = "/stats.do/gameService"
        /\ res.state = "ended"
        /\ res.contentType = urlencoded

\* A location is the root directory or a descendant of it.
withinRoot(p) == p = ROOT \/ startsWith(p, ROOT \o "/")

\* C2: a request whose path resolves outside the root directory is answered
\* 403 and no file is looked at or read for it; no 200 response carries the
\* content of a file outside the root directory.
C2_NoEscape ==
    \A res \in Accepted :
        IsStatic(res) =>
              /\ ~withinRoot(join(ROOT, res.relCandidates[1])) =>
                     res.statusCode = 403 /\ res.statted = <<>>
              /\ res.statusCode = 200 => withinRoot(res.file)

\* A 200 response carried the bytes of a file in a sibling of the root directory.
C2_Leak ==
    \E res \in Accepted :
        /\ res.state = "ended"
        /\ res.statusCode = 200
        /\ res.body = fileBytes("/srv/appsecret/k.txt")

slotOf(k) ==
    CASE k = 1 -> gameServiceBody
      [] k = 2 -> reloadBalanceBody
      [] k = 3 -> saveSettingsBody
      [] k = 4 -> statsBody

literalBodies(k) ==
    CASE k = 1 -> { gameServiceFallback }
      [] k = 2 -> { reloadBalanceFallback(now) : now \in Clock }
      [] k = 3 -> { "" }
      [] k = 4 -> { statsFallback }

\* C3: for each of the four mock rules, the body is the loaded file content
\* whenever the rule's file was loaded at start-up, the empty string included;
\* the literal body is sent only when the slot was left unset.
C3_LoadedBodyIsSent ==
    \A res \in Accepted :
        LET m == matching(res.pathname)
        IN  (m # {} /\ first(m) <= 4) =>
               LET k == first(m)
               IN  IF slotOf(k).isNull
                   THEN res.body \in literalBodies(k)
                   ELSE res.body = slotOf(k).text

\* An empty gameService file was loaded and the literal balance was sent.
C3_EmptyIgnored ==
    \E res \in Accepted :
        /\ gameServiceBody = Str("")
        /\ res.url = "/gameService"
        /\ res.body = gameServiceFallback

\* C4: a failure raised while a request is handled, in the synchronous code,
\* in the fs.stat callback or while the file is streamed, gives that request
\* a 500 response with body "Internal server error" and never terminates the
\* process.
C4_FailureGives500 ==
    /\ ~crashed
    /\ \A res \in Accepted :
           res.failure # "" =>
               /\ res.state = "ended"
               /\ res.statusCode = 500
               /\ res.body = "Internal server error"

\* A failure in the synchronous part was answered 500.
C4_SyncCaught ==
    \E res \in Accepted :
        /\ res.failure = "sync"
        /\ res.statusCode = 500
        /\ ~crashed

\* C5: the candidates are examined in list order, a later one only after every
\* earlier one was found missing or not a regular file; the file served with
\* 200 is the lowest-index candidate that was a regular file when examined;
\* 404, naming the requested path, is sent exactly when every candidate was
\* examined and none was a regular file.
C5_CandidatesInOrder ==
    \A res \in Accepted :
        LET n   == Len(res.relCandidates)
            k   == Len(res.isFile)
        IN  IsStatic(res) =>
              /\ Len(res.statted) <= n
              /\ \A i \in 1..Len(res.statted) : res.statted[i] = i - 1
              /\ k <= Len(res.statted)
              /\ Len(res.statted) <= k + 1
              /\ \A i \in 1..(k - 1) : ~res.isFile[i]
              /\ res.statusCode = 200 =>
                    /\ k >= 1
                    /\ res.isFile[k]
                    /\ res.file = join(ROOT, res.relCandidates[k])
              /\ res.statusCode = 404 <=>
                    (k = n /\ \A i \in 1..k : ~res.isFile[i])
              /\ res.statusCode = 404 =>
                    /\ res.state = "ended"
                    /\ res.body = "Not Found: " \o
                           (IF beforeQuery(res.url) = "" THEN "/" ELSE beforeQuery(res.url))

\* The third candidate was served after the first two were found to be no file.
C5_Witness ==
    \E res \in Accepted :
        /\ res.url = "/" \o vsPrefix \o "x.json"
        /\ res.isFile = <<FALSE, FALSE, TRUE>>
        /\ res.state = "ended"
        /\ res.statusCode = 200
        /\ res.body = fileBytes(ROOT \o "/" \o vsPrefix \o "desktop/game/x.json")

IsStatsResponse(res) == IsMockResponse(res, "application/json")

\* C6 as stated: a request whose target contains stats.do anywhere, also only
\* in the query string, is answered with the stats mock.  (Targets that contain
\* the substring of an earlier rule are left out.)
C6_Original ==
    \A res \in Accepted :
        LET u == res.url
        IN  (includes(u, "stats.do") /\ \A k \in matching(u) : k >= 4) =>
                IsStatsResponse(res)

\* C6 amended: a request whose path, the target before the first "?", contains
\* stats.do and the substring of no earlier rule is answered with the stats
\* mock; a target that contains stats.do only after the "?", with a path that
\* matches no rule, goes to the static file resolver.
C6_Amended ==
    \A res \in Accepted :
        LET u == res.url
            p == beforeQuery(u)
        IN  /\ (includes(p, "stats.do") /\ \A k \in matching(p) : k >= 4) =>
                   IsStatsResponse(res)
            /\ (includes(u, "stats.do") /\ matching(p) = {}) =>
                   IsStatic(res) /\ res.allowOrigin = ""

\* stats.do in the query string only: the request was answered 404 by the resolver.
C6_Witness ==
    \E res \in Accepted :
        /\ res.url = "/foo?x=stats.do"
        /\ res.state = "ended"
        /\ res.statusCode = 404
        /\ res.body = "Not Found: /foo"

\* C7: after the load, each slot holds its file's text if the file exists and
\* its read succeeded and is unset otherwise, independently of the other files.
C7_IndependentLoad ==
    loaded =>
        \A k \in 1..4 :
            LET f == disk[<<"gameService", "reloadBalance", "saveSettings", "stats">>[k]]
            IN  slotOf(k) = IF f.exists /\ f.readable THEN Str(f.text) ELSE Null

\* The gameService read failed and the readable stats file was not loaded.
C7_LaterFileSkipped ==
    /\ loaded
    /\ readThrows(disk["gameService"])
    /\ disk["stats"].readable
    /\ statsBody = Null

candidatesWith(primary, thirdTail(_)) ==
    IF startsWith(primary, vsPrefix)
    THEN LET tail == SubSeq(primary, Len(vsPrefix) + 1, Len(primary))
         IN  <<primary>>
             \o (IF startsWith(tail, "desktop/") THEN <<>>
                 ELSE <<vsPrefix \o "desktop/" \o tail>>)
             \o (IF startsWith(tail, "desktop/game/") THEN <<>>
                 ELSE <<vsPrefix \o "desktop/game/" \o thirdTail(tail)>>)
    ELSE <<primary>>

wholeTail(tail) == tail

withoutLeadingGame(tail) ==
    IF startsWith(tail, "game/") THEN SubSeq(tail, 6, Len(tail)) ELSE tail

\* C8 as stated: the candidate list is the primary, then prefix desktop/ tail
\* unless the tail starts with desktop/, then prefix desktop/game/ and the whole
\* tail unless the tail starts with desktop/game/; at most 3 elements.
C8_Original ==
    \A res \in Accepted :
        IsStatic(res) =>
            /\ Len(res.relCandidates) <= 3
            /\ res.relCandidates =
                   candidatesWith(res.relCandidates[1], wholeTail)

\* C8 amended: as stated, except that the third candidate is prefix
\* desktop/game/ and the tail without one leading game/ segment.
C8_Amended ==
    \A res \in Accepted :
        IsStatic(res) =>
            /\ Len(res.relCandidates) <= 3
            /\ res.relCandidates =
                   candidatesWith(res.relCandidates[1], withoutLeadingGame)

\* A tail that starts with game/ got its three candidates.
C8_Witness ==
    \E res \in Accepted :
        /\ res.url = "/" \o vsPrefix \o "game/x.json"
        /\ res.relCandidates =
               << vsPrefix \o "game/x.json",
                  vsPrefix \o "desktop/game/x.json",
                  vsPrefix \o "desktop/game/x.json" >>

\* C9: every accepted request reaches exactly one outcome among mock 200, file
\* 200, 403, 404 and 500: the response is ended at most once, at most one stat
\* is issued per candidate and at most 3 per request, and no request is left
\* without a response.  (After the process has exited nothing more is sent, so
\* a request that is not ended then is never answered.)
C9_OneOutcome ==
    \A res \in Accepted :
        /\ res.ends <= 1
        /\ Len(res.statted) <= 3
        /\ \A i, j \in 1..Len(res.statted) : res.statted[i] = res.statted[j] => i = j
        /\ res.state = "ended" =>
               res.ends = 1 /\ res.statusCode \in {200, 403, 404, 500}
        /\ crashed => res.state = "ended"

\* The process exited while a request was waiting for its response.
C9_LeftUnanswered ==
    \E res \in Accepted : crashed /\ res.state # "ended" /\ res.failure = ""

\* C10: the load has returned before the first request is accepted, and once
\* the server listens no step writes a mock slot, whatever the interleaving of
\* requests and stat callbacks.
C10_CacheStable ==
    /\ [](reqs # EmptyBag => loaded /\ listening)
    /\ [][listening => slots' = slots]_vars

\* Two requests are in progress at once on a loaded cache.
C10_Witness ==
    /\ \E a, b \in Accepted : a.state = "stat" /\ b.state = "stream"
    /\ ~statsBody.isNull
    /\ gameServiceBody.isNull

====
